---------------------------- MODULE Spec2Model ----------------------------
(***************************************************************************)
(* Masked recurrent layers of common/parametric_functions.py: simple_rnn,  *)
(* lstm_cell, lstm, highway and where, over a small tensor engine.         *)
(*                                                                         *)
(* A tensor is a record [shape, data]: shape is the sequence of dimension  *)
(* sizes, data the elements in row-major order.  Elements are integers:    *)
(* an activation is the real function rounded to the nearest integer       *)
(* (tanh to -1, 0, 1; sigmoid to 0, 1; a tie rounds down).                  *)
(*                                                                         *)
(* The layers read `inputs` only through its shape and one slice per loop  *)
(* iteration, so the model keeps the shape and draws each slice when the   *)
(* loop reaches it.  return_sequences and return_state are drawn where the *)
(* code first reads them, after the loop; every other argument is drawn    *)
(* when the call is made.                                                  *)
(*                                                                         *)
(* Element-wise arithmetic broadcasts as the library's does: the operands  *)
(* have the same rank, and along each axis equal sizes or one of size 1.   *)
(* The assert statements of lstm are in force (the interpreter's default). *)
(***************************************************************************)
EXTENDS Integers, Sequences, FiniteSets, TLC

\* ------------------------------------------------------------- bounds
BatchSize == 2
MaxLen == 2
EmbeddingSize == 1
MaxUnits == 2
MaxChain == 2
NumSeeds == 2

VARIABLES
    params,             \* parameter registry: scope path -> [W, b] or NoParam
    used,               \* affine applications of the current call: [scope, need_grad]
    pc,                 \* "idle", "loop", "done" or "error"
    fn,                 \* the function being run
    raised,             \* the error raised by the current call ("" when none)
    length,             \* inputs.shape[1]
    units,
    maskGiven,          \* FALSE when the call passed mask=None
    mask,               \* the mask tensor (after the default is filled in)
    return_sequences,
    return_state,
    fix_parameters,
    initial_state,      \* [type, elems]
    chained,            \* initial_state is the state the previous lstm call returned
    t,                  \* loop iterations completed
    cell, hidden,       \* running state (simple_rnn: h is `hidden`)
    cell_t, hidden_t,   \* candidate state of the last iteration (simple_rnn: h_t)
    hs,                 \* output history
    ret,                \* returned value: sequence of tensors
    wargs,              \* arguments of the last direct where / highway call
    out_plain, out_transform,
    nomask,             \* the same call run with mask=None: [cell, hidden, hs]
    whole               \* one unchained call over all timesteps of the chain: [cell, hidden, hs]

vars == <<params, used, pc, fn, raised, length, units, maskGiven, mask,
          return_sequences, return_state, fix_parameters, initial_state, chained,
          t, cell, hidden, cell_t, hidden_t, hs, ret, wargs, out_plain, out_transform,
          nomask, whole>>

\* ------------------------------------------------------ tensor engine
Err == [shape |-> <<0>>, data |-> <<>>]
None == [shape |-> <<>>, data |-> <<>>]

IsErr(a) == a = Err

RECURSIVE Prod(_)
Prod(s) == IF s = <<>> THEN 1 ELSE Head(s) * Prod(Tail(s))

Max(a, b) == IF a >= b THEN a ELSE b
Min(a, b) == IF a <= b THEN a ELSE b

ndim(a) == Len(a.shape)

\* The sequence <<F(1), ..., F(n)>>.
RECURSIVE Tabulate(_, _)
Tabulate(F(_), n) == IF n = 0 THEN <<>> ELSE Append(Tabulate(F, n - 1), F(n))

RECURSIVE Sum(_, _)
Sum(F(_), n) == IF n = 0 THEN 0 ELSE F(n) + Sum(F, n - 1)

\* Number of elements after axis i (1-based) of shape s.
Stride(s, i) == Prod(SubSeq(s, i + 1, Len(s)))

\* The flat position (0-based) in shape s of the element that broadcasts to flat
\* position k (0-based) of shape so: an axis of size 1 reads index 0.
BroadcastIndex(k, so, s) ==
    Sum(LAMBDA i : (IF s[i] = 1 THEN 0 ELSE (k \div Stride(so, i)) % so[i]) * Stride(s, i), Len(s))

Constant(v, s) == [shape |-> s, data |-> Tabulate(LAMBDA k : v, Prod(s))]

Reshape(a, s) ==
    IF IsErr(a) \/ Prod(s) # Prod(a.shape) THEN Err ELSE [shape |-> s, data |-> a.data]

BroadcastOk(s0, s1) ==
    /\ Len(s0) = Len(s1)
    /\ \A i \in 1..Len(s0) : s0[i] = s1[i] \/ s0[i] = 1 \/ s1[i] = 1

RECURSIVE Map1(_, _)
Map1(Op(_), d) == IF d = <<>> THEN <<>> ELSE <<Op(Head(d))>> \o Map1(Op, Tail(d))

RECURSIVE Map2(_, _, _)
Map2(Op(_, _), d, e) ==
    IF d = <<>> THEN <<>> ELSE <<Op(Head(d), Head(e))>> \o Map2(Op, Tail(d), Tail(e))

\* Element-wise binary function with broadcast: the operands have one rank (another
\* rank is a shape error) and along each axis equal sizes, or one of them size 1.
Binary(Op(_, _), a, b) ==
    IF IsErr(a) \/ IsErr(b) THEN Err
    ELSE IF a.shape = b.shape THEN [shape |-> a.shape, data |-> Map2(Op, a.data, b.data)]
    ELSE IF ~BroadcastOk(a.shape, b.shape) THEN Err
    ELSE LET so == Tabulate(LAMBDA i : Max(a.shape[i], b.shape[i]), ndim(a))
         IN [shape |-> so,
             data  |-> Tabulate(LAMBDA k : Op(a.data[BroadcastIndex(k - 1, so, a.shape) + 1],
                                              b.data[BroadcastIndex(k - 1, so, b.shape) + 1]),
                                Prod(so))]

Mul2(a, b) == Binary(LAMBDA u, v : u * v, a, b)
Add2(a, b) == Binary(LAMBDA u, v : u + v, a, b)
Sub2(a, b) == Binary(LAMBDA u, v : u - v, a, b)

Unary(Op(_), a) ==
    IF IsErr(a) THEN Err
    ELSE [shape |-> a.shape, data |-> Map1(Op, a.data)]

\* scalar - tensor
RSubScalar(v, a) == Unary(LAMBDA e : v - e, a)

Tanh(a)    == Unary(LAMBDA v : IF v >= 1 THEN 1 ELSE IF v <= -1 THEN -1 ELSE 0, a)
Sigmoid(a) == Unary(LAMBDA v : IF v >= 1 THEN 1 ELSE 0, a)
Relu(a)    == Unary(LAMBDA v : IF v >= 0 THEN v ELSE 0, a)

\* F.concatenate(a, b, axis=1) of two rank-2 tensors.
Concatenate(a, b) ==
    IF IsErr(a) \/ IsErr(b) \/ ndim(a) # 2 \/ ndim(b) # 2 THEN Err
    ELSE IF a.shape[1] # b.shape[1] THEN Err
    ELSE LET w == a.shape[2] + b.shape[2]
         IN [shape |-> <<a.shape[1], w>>,
             data  |-> Tabulate(LAMBDA k :
                          LET r == (k - 1) \div w
                              c == (k - 1) % w
                          IN IF c < a.shape[2] THEN a.data[r * a.shape[2] + c + 1]
                             ELSE b.data[r * b.shape[2] + (c - a.shape[2]) + 1],
                          a.shape[1] * w)]

\* F.split(a, axis=1): one tensor per index of axis 1, that axis removed.
Split(a) ==
    LET outer == a.shape[1]
        n     == a.shape[2]
        rest  == SubSeq(a.shape, 3, Len(a.shape))
        inner == Prod(rest)
    IN Tabulate(LAMBDA i :
          [shape |-> <<outer>> \o rest,
           data  |-> Tabulate(LAMBDA k :
                        a.data[(((k - 1) \div inner) * n + (i - 1)) * inner + ((k - 1) % inner) + 1],
                        outer * inner)],
          n)

\* F.stack(*xs, axis=1) of rank-2 tensors of one shape.
Stack(xs) ==
    LET n     == Len(xs)
        outer == xs[1].shape[1]
        inner == xs[1].shape[2]
    IN [shape |-> <<outer, n, inner>>,
        data  |-> Tabulate(LAMBDA k :
                     LET o == (k - 1) \div (n * inner)
                         i == ((k - 1) \div inner) % n
                         j == (k - 1) % inner
                     IN xs[i + 1].data[o * inner + j + 1],
                     outer * n * inner)]

\* a[:, lo:hi] of a rank-2 tensor (0-based, hi excluded).
Columns(a, lo, hi) ==
    IF IsErr(a) THEN Err
    ELSE [shape |-> <<a.shape[1], hi - lo>>,
          data  |-> Tabulate(LAMBDA k :
                       a.data[((k - 1) \div (hi - lo)) * a.shape[2] + lo + ((k - 1) % (hi - lo)) + 1],
                       a.shape[1] * (hi - lo))]

\* x W + b for x of shape (batch, n_in), W of shape (n_in, n_out), b of shape (n_out).
AffineOut(x, p) ==
    IF IsErr(x) \/ ndim(x) # 2 THEN Err
    ELSE LET n_in  == x.shape[2]
             n_out == p.W.shape[2]
         IN [shape |-> <<x.shape[1], n_out>>,
             data  |-> Tabulate(LAMBDA k :
                          LET r == (k - 1) \div n_out
                              c == (k - 1) % n_out
                          IN Sum(LAMBDA i : x.data[r * n_in + i] * p.W.data[(i - 1) * n_out + c + 1], n_in)
                             + p.b.data[c + 1],
                          x.shape[1] * n_out)]

\* ------------------------------------------------- parameter registry
NoParam == [W |-> None, b |-> None]

RnnScope == <<"simple_rnn", "affine">>
LstmScope == <<"lstm", "affine">>
PlainScope == <<"highway", "plain", "affine">>
TransformScope == <<"highway", "transform", "affine">>

Scopes == {RnnScope, LstmScope, PlainScope, TransformScope}

RECURSIVE Pow2(_)
Pow2(n) == IF n = 0 THEN 1 ELSE 2 * Pow2(n - 1)

\* A freshly initialised affine parameter: W drawn by the initialiser (seed), b zero.
NewParam(seed, rows, cols) ==
    [W |-> [shape |-> <<rows, cols>>,
            data  |-> Tabulate(LAMBDA k : IF (seed \div Pow2((k - 1) % 3)) % 2 = 1 THEN 1 ELSE -1,
                               rows * cols)],
     b |-> Constant(0, <<cols>>)]

\* get_parameter_or_create: the registered parameter, or a new one.
ParamChoices(scope, rows, cols) ==
    IF params[scope] # NoParam THEN {params[scope]}
    ELSE {NewParam(seed, rows, cols) : seed \in 0..(NumSeeds - 1)}

\* A registered parameter of another shape fails get_parameter_or_create's shape check.
ParamOk(scope, rows, cols) ==
    params[scope] = NoParam \/ params[scope].W.shape = <<rows, cols>>

\* PF.affine(..., fix_parameters=fix) under `scope`: the parameters it uses are
\* handed out with need_grad = not fix_parameters.
AffineUse(scope, fix) == [scope |-> scope, need_grad |-> ~fix]

\* ------------------------------------------------------------- where
\* F(v) for the value v of e: a local name for a value computed once.
With(e, F(_)) == CHOOSE r \in {F(v) : v \in {e}} : TRUE

\* Fault variants of where: the condition ignored, and the y term forgotten.
where_ignoring(condition, x, y) == x
where_zeroing(condition, x, y) == Mul2(condition, x)

where(condition, x, y) ==
    With(IF ndim(x) = 1 THEN Reshape(condition, condition.shape \o <<1>>) ELSE condition,
         LAMBDA true_condition :
            LET false_condition == Sub2(Constant(1, true_condition.shape), true_condition)
            IN Add2(Mul2(true_condition, x), Mul2(false_condition, y)))

\* ------------------------------------------------------- loop bodies
\* simple_rnn, one iteration: the candidate h_t and the new h.
simple_rnn_body(x, cond, h, p) ==
    With(Tanh(AffineOut(Concatenate(x, h), p)),
         LAMBDA h_t : [cell_t |-> None, hidden_t |-> h_t, cell |-> None,
                       hidden |-> where(cond, h_t, h)])

\* lstm_cell: [cell, hidden].  hidden_all is the source's _hidden.
lstm_cell(x, c, h, p) ==
    IF ndim(c) # 2 \/ IsErr(Concatenate(x, h)) THEN [cell |-> Err, hidden |-> Err]
    ELSE With(AffineOut(Concatenate(x, h), p),
              LAMBDA hidden_all :
                 LET u            == c.shape[2]
                     a            == Tanh(Columns(hidden_all, u * 0, u * 1))
                     input_gate   == Sigmoid(Columns(hidden_all, u * 1, u * 2))
                     forgate_gate == Sigmoid(Columns(hidden_all, u * 2, u * 3))
                     output_gate  == Sigmoid(Columns(hidden_all, u * 3, u * 4))
                 IN With(Add2(Mul2(input_gate, a), Mul2(forgate_gate, c)),
                         LAMBDA cell_new :
                            [cell |-> cell_new, hidden |-> Mul2(output_gate, Tanh(cell_new))]))

\* lstm, one iteration.
lstm_body(x, cond, c, h, p) ==
    With(lstm_cell(x, c, h, p),
         LAMBDA ct : [cell_t |-> ct.cell, hidden_t |-> ct.hidden,
                      cell |-> where(cond, ct.cell, c), hidden |-> where(cond, ct.hidden, h)])

body(f, x, cond, c, h, p) ==
    IF f = "simple_rnn" THEN simple_rnn_body(x, cond, h, p) ELSE lstm_body(x, cond, c, h, p)

\* Fault variant of DefaultMask: a default of zeros.
DefaultMaskZeros(len) == Constant(0, <<BatchSize, len, 1>>)

\* mask = F.constant(1, shape=(batch_size, length, 1))
DefaultMask(len) == Constant(1, <<BatchSize, len, 1>>)

\* h0 / c0 = F.constant(0, shape=(batch_size, units))
ZeroState(u) == Constant(0, <<BatchSize, u>>)


\* ------------------------------------------------------ argument sets
TensorsOver(s, vals) ==
    {[shape |-> s, data |-> Tabulate(LAMBDA k : d[k], Prod(s))] : d \in [1..Prod(s) -> vals]}

\* One timestep of inputs: shape (batch_size, embedding_size).
InputSlices == TensorsOver(<<BatchSize, EmbeddingSize>>, {-1, 1})

\* Masks of the documented shape (batch_size, length, 1), binary.
MaskSet(len) == TensorsOver(<<BatchSize, len, 1>>, {0, 1})

NoState == [type |-> "None", elems |-> <<>>]
NoRun == [cell |-> None, hidden |-> None, hs |-> <<>>]

Pair(ty, c0, h0) == [type |-> ty, elems |-> <<c0, h0>>]

\* initial_state arguments: None, well-formed pairs, and malformed ones.
WellFormedStates(u) ==
    {Pair("list", Constant(1, <<BatchSize, u>>), Constant(0, <<BatchSize, u>>)),
     Pair("tuple", Constant(0, <<BatchSize, u>>), Constant(-1, <<BatchSize, u>>))}

MalformedStates(u) ==
    {Pair("dict", ZeroState(u), ZeroState(u)),
     [type |-> "tuple", elems |-> <<ZeroState(u)>>],
     [type |-> "list", elems |-> <<ZeroState(u), ZeroState(u), ZeroState(u)>>],
     Pair("tuple", ZeroState(u), Constant(0, <<BatchSize, u + 1>>)),
     Pair("tuple", Constant(0, <<BatchSize + 1, u>>), Constant(0, <<BatchSize + 1, u>>)),
     Pair("list", Constant(0, <<BatchSize, u + 1>>), Constant(0, <<BatchSize, u + 1>>)),
     Pair("tuple", Constant(0, <<BatchSize>>), Constant(0, <<BatchSize>>)),
     Pair("tuple", Constant(0, <<BatchSize, u, 1>>), Constant(0, <<BatchSize, u, 1>>))}

\* The state the previous lstm call returned, passed on as initial_state.
ChainedStates(len) ==
    IF pc = "done" /\ fn = "lstm" /\ return_state /\ Len(whole.hs) + len <= MaxChain
    THEN {Pair("tuple", ret[2], ret[3])}
    ELSE {}

\* The initial_state arguments of a call: a first call draws any; a call made after
\* a call that returned its state passes that state on.
InitialStates(len, u) ==
    IF pc = "idle" THEN {NoState} \cup WellFormedStates(u) \cup MalformedStates(u)
    ELSE ChainedStates(len)

\* Fault variant of Validate: the units check left out.
ValidateNoUnits(st, u) ==
    IF st.type = "None" THEN ""
    ELSE IF st.type \notin {"tuple", "list"} THEN "initial_state must be a typle or a list."
    ELSE IF Len(st.elems) # 2 THEN "initial_state must have only two states."
    ELSE IF st.elems[1].shape # st.elems[2].shape THEN "shapes of initial_state must be same."
    ELSE IF ndim(st.elems[1]) < 1 THEN "IndexError"
    ELSE IF st.elems[1].shape[1] # BatchSize THEN "batch size of initial_state is different from that of inputs."
    ELSE ""

\* lstm's checks of initial_state, in order: the error raised, "" when none.
Validate(st, u) ==
    IF st.type = "None" THEN ""
    ELSE IF st.type \notin {"tuple", "list"} THEN "initial_state must be a typle or a list."
    ELSE IF Len(st.elems) # 2 THEN "initial_state must have only two states."
    ELSE LET c0 == st.elems[1]
             h0 == st.elems[2]
         IN IF c0.shape # h0.shape THEN "shapes of initial_state must be same."
            ELSE IF ndim(c0) < 1 THEN "IndexError"
            ELSE IF c0.shape[1] # BatchSize THEN "batch size of initial_state is different from that of inputs."
            ELSE IF ndim(c0) < 2 THEN "IndexError"
            ELSE IF c0.shape[2] # u THEN "units size of initial_state is different from that of units of args."
            ELSE ""

\* --------------------------------------------------------------- Init
Init ==
    /\ params = [s \in Scopes |-> NoParam]
    /\ used = {}
    /\ pc = "idle"
    /\ fn = "none"
    /\ raised = ""
    /\ length = 0
    /\ units = 0
    /\ maskGiven = FALSE
    /\ mask = None
    /\ return_sequences = FALSE
    /\ return_state = FALSE
    /\ fix_parameters = FALSE
    /\ initial_state = NoState
    /\ chained = FALSE
    /\ t = 0
    /\ cell = None
    /\ hidden = None
    /\ cell_t = None
    /\ hidden_t = None
    /\ hs = <<>>
    /\ ret = <<>>
    /\ wargs = <<>>
    /\ out_plain = None
    /\ out_transform = None
    /\ nomask = NoRun
    /\ whole = NoRun

\* A behaviour is one call, which further lstm calls may continue from the state
\* it returned.
CanCall(f) == pc = "idle" \/ (f = "lstm" /\ pc = "done" /\ fn = "lstm" /\ return_state)

\* What every call sets before its own work.
Enter(f) ==
    /\ fn' = f
    /\ used' = {}
    /\ t' = 0
    /\ hs' = <<>>
    /\ ret' = <<>>
    /\ cell_t' = None
    /\ hidden_t' = None
    /\ UNCHANGED params

\* --------------------------------------------------------- simple_rnn
simple_rnn_call ==
    /\ CanCall("simple_rnn")
    /\ Enter("simple_rnn")
    /\ \E len \in 1..MaxLen, u \in 1..MaxUnits, fix \in BOOLEAN :
         \E m \in {None} \cup MaskSet(len) :
            /\ length' = len
            /\ units' = u
            /\ fix_parameters' = fix
            /\ maskGiven' = (m # None)
            /\ mask' = IF m = None THEN DefaultMask(len) ELSE m
            /\ hidden' = ZeroState(u)
            /\ nomask' = [cell |-> None, hidden |-> ZeroState(u), hs |-> <<>>]
            /\ whole' = [cell |-> None, hidden |-> ZeroState(u), hs |-> <<>>]
    /\ cell' = None
    /\ return_sequences' = FALSE
    /\ return_state' = FALSE
    /\ initial_state' = NoState
    /\ chained' = FALSE
    /\ raised' = ""
    /\ pc' = "loop"
    /\ UNCHANGED <<wargs, out_plain, out_transform>>

\* Fault variant of HasNext: after the first step, the loop ends at a timestep that
\* is padding for every example.
HasNextUnpadded ==
    /\ t < length
    /\ t < Len(Split(mask))
    /\ t = 0 \/ \E i \in 1..BatchSize : Split(mask)[t + 1].data[i] # 0

\* zip(F.split(inputs, axis=1), F.split(mask, axis=1)) has another pair.
HasNext == t < length /\ t < Len(Split(mask))

Raise(msg) ==
    /\ pc' = "error"
    /\ raised' = msg
    /\ UNCHANGED <<t, cell, hidden, cell_t, hidden_t, hs, nomask, whole>>

\* One loop iteration of f, its affine under `scope` with n_out outputs.
Iterate(f, scope, n_out, fix) ==
    /\ pc = "loop"
    /\ fn = f
    /\ HasNext
    /\ \E x \in InputSlices, cond \in {Split(mask)[t + 1]}, dcond \in {Split(DefaultMask(length))[t + 1]} :
         \E xh \in {Concatenate(x, hidden)} :
            IF IsErr(xh) \/ (f = "lstm" /\ ndim(cell) # 2)
            THEN Raise("shape") /\ UNCHANGED <<params, used>>
            ELSE IF ~ParamOk(scope, xh.shape[2], n_out)
            THEN Raise("parameter shape") /\ UNCHANGED <<params, used>>
            ELSE \E p \in ParamChoices(scope, xh.shape[2], n_out) :
                   \E r \in {body(f, x, cond, cell, hidden, p)},
                      g \in {body(f, x, dcond, nomask.cell, nomask.hidden, p)},
                      w \in {body(f, x, cond, whole.cell, whole.hidden, p)} :
                      /\ params' = [params EXCEPT ![scope] = p]
                      /\ used' = used \cup {AffineUse(scope, fix)}
                      /\ cell_t' = r.cell_t
                      /\ hidden_t' = r.hidden_t
                      /\ cell' = r.cell
                      /\ hidden' = r.hidden
                      /\ hs' = Append(hs, r.hidden)
                      /\ t' = t + 1
                      /\ nomask' = [cell |-> g.cell, hidden |-> g.hidden, hs |-> Append(nomask.hs, g.hidden)]
                      /\ whole' = [cell |-> w.cell, hidden |-> w.hidden, hs |-> Append(whole.hs, w.hidden)]
                      /\ UNCHANGED <<pc, raised>>
    /\ UNCHANGED <<fn, length, units, maskGiven, mask, return_sequences, return_state,
                   fix_parameters, initial_state, chained, ret, wargs, out_plain, out_transform>>

simple_rnn_step == Iterate("simple_rnn", RnnScope, units, fix_parameters)

\* Fault variant of Output: the first entry instead of the last.
OutputFirst(rs) == IF rs THEN Stack(hs) ELSE hs[1]

\* hs stacked, or its last entry.
Output(rs) == IF rs THEN Stack(hs) ELSE hs[Len(hs)]

simple_rnn_return ==
    /\ pc = "loop"
    /\ fn = "simple_rnn"
    /\ ~HasNext
    /\ \E rs \in BOOLEAN :
         /\ return_sequences' = rs
         /\ ret' = <<Output(rs)>>
    /\ pc' = "done"
    /\ UNCHANGED <<params, used, fn, raised, length, units, maskGiven, mask,
                   return_state, fix_parameters, initial_state, chained,
                   t, cell, hidden, cell_t, hidden_t, hs, wargs, out_plain, out_transform,
                   nomask, whole>>

\* --------------------------------------------------------------- lstm
lstm_call ==
    /\ CanCall("lstm")
    /\ Enter("lstm")
    /\ \E len \in 1..MaxLen, u \in 1..MaxUnits, fix \in BOOLEAN :
         \E m \in {None} \cup MaskSet(len), st \in InitialStates(len, u) :
            LET c0 == IF st.type = "None" THEN ZeroState(u) ELSE st.elems[1]
                h0 == IF st.type = "None" THEN ZeroState(u) ELSE st.elems[2]
                ch == st \in ChainedStates(len)
            IN /\ length' = len
               /\ units' = u
               /\ return_sequences' = FALSE
               /\ return_state' = FALSE
               /\ fix_parameters' = fix
               /\ initial_state' = st
               /\ chained' = ch
               /\ raised' = Validate(st, u)
               /\ IF Validate(st, u) # ""
                  THEN /\ pc' = "error"
                       /\ maskGiven' = FALSE
                       /\ mask' = None
                       /\ cell' = None
                       /\ hidden' = None
                       /\ nomask' = NoRun
                       /\ whole' = NoRun
                  ELSE /\ pc' = "loop"
                       /\ maskGiven' = (m # None)
                       /\ mask' = IF m = None THEN DefaultMask(len) ELSE m
                       /\ cell' = c0
                       /\ hidden' = h0
                       /\ nomask' = [cell |-> c0, hidden |-> h0, hs |-> <<>>]
                       /\ whole' = IF ch THEN whole ELSE [cell |-> c0, hidden |-> h0, hs |-> <<>>]
    /\ UNCHANGED <<wargs, out_plain, out_transform>>

\* lstm_cell calls PF.affine without fix_parameters: the default, False.
lstm_step == Iterate("lstm", LstmScope, 4 * cell.shape[2], FALSE)

\* Fault variant of Returned: hidden and cell in the other order.
ReturnedSwapped(rs, rst) == IF rst THEN <<Output(rs), hidden, cell>> ELSE <<Output(rs)>>

\* What lstm returns: ret alone, or ret, cell, hidden.
Returned(rs, rst) == IF rst THEN <<Output(rs), cell, hidden>> ELSE <<Output(rs)>>

lstm_return ==
    /\ pc = "loop"
    /\ fn = "lstm"
    /\ ~HasNext
    /\ \E rs \in BOOLEAN, rst \in BOOLEAN :
         /\ return_sequences' = rs
         /\ return_state' = rst
         /\ ret' = Returned(rs, rst)
    /\ pc' = "done"
    /\ UNCHANGED <<params, used, fn, raised, length, units, maskGiven, mask,
                   fix_parameters, initial_state, chained,
                   t, cell, hidden, cell_t, hidden_t, hs, wargs, out_plain, out_transform,
                   nomask, whole>>

\* ------------------------------------------------------------ highway
\* Inputs of highway: shape (batch_size, in_out_size).
HighwayInputs == UNION {TensorsOver(<<BatchSize, n>>, {-1, 1}) : n \in 1..MaxUnits}

\* Fault variant of highway_y: the gate applied to the wrong branch.
highway_y_swapped(x, op, ot) == Add2(Mul2(x, ot), Mul2(op, RSubScalar(1, ot)))

\* y = out_plain * out_transform + x * (1 - out_transform)
highway_y(x, op, ot) == Add2(Mul2(op, ot), Mul2(x, RSubScalar(1, ot)))

\* What a direct call of highway or where leaves of the recurrent layers' state.
NoLoop ==
    /\ length' = 0
    /\ units' = 0
    /\ maskGiven' = FALSE
    /\ mask' = None
    /\ return_sequences' = FALSE
    /\ return_state' = FALSE
    /\ initial_state' = NoState
    /\ chained' = FALSE
    /\ t' = 0
    /\ cell' = None
    /\ hidden' = None
    /\ cell_t' = None
    /\ hidden_t' = None
    /\ hs' = <<>>
    /\ nomask' = NoRun
    /\ whole' = NoRun

highway_call ==
    /\ CanCall("highway")
    /\ fn' = "highway"
    /\ \E x \in HighwayInputs, fix \in BOOLEAN :
         \E pp \in ParamChoices(PlainScope, x.shape[2], x.shape[2]),
            pt \in ParamChoices(TransformScope, x.shape[2], x.shape[2]) :
            \E op \in {Relu(AffineOut(x, pp))}, ot \in {Sigmoid(AffineOut(x, pt))} :
               /\ wargs' = <<x>>
               /\ fix_parameters' = fix
               /\ params' = [params EXCEPT ![PlainScope] = pp, ![TransformScope] = pt]
               /\ used' = {AffineUse(PlainScope, fix), AffineUse(TransformScope, fix)}
               /\ out_plain' = op
               /\ out_transform' = ot
               /\ ret' = <<highway_y(x, op, ot)>>
    /\ pc' = "done"
    /\ raised' = ""
    /\ NoLoop

\* -------------------------------------------------------- where, direct
\* x and y of one shape, of rank 2 or rank 1.
WhereShapes == {<<BatchSize, n>> : n \in 1..MaxUnits} \cup {<<BatchSize>>}

\* Condition shapes tried with x of shape s: the documented (batch_size, 1), and for
\* rank-1 x also one condition per example and a single condition.
ConditionShapes(s) ==
    IF Len(s) = 1 THEN {<<BatchSize, 1>>, <<BatchSize>>, <<>>} ELSE {<<BatchSize, 1>>}

where_call ==
    /\ CanCall("where")
    /\ fn' = "where"
    /\ \E s \in WhereShapes :
         \E x \in TensorsOver(s, {-1, 1}), y \in TensorsOver(s, {0, 2}), cs \in ConditionShapes(s) :
            \E condition \in TensorsOver(cs, {0, 1}) :
               \E r \in {where(condition, x, y)} :
                  /\ wargs' = <<condition, x, y>>
                  /\ ret' = <<r>>
                  /\ pc' = IF IsErr(r) THEN "error" ELSE "done"
                  /\ raised' = IF IsErr(r) THEN "shape" ELSE ""
    /\ fix_parameters' = FALSE
    /\ used' = {}
    /\ NoLoop
    /\ UNCHANGED <<params, out_plain, out_transform>>

Next ==
    \/ simple_rnn_call
    \/ simple_rnn_step
    \/ simple_rnn_return
    \/ lstm_call
    \/ lstm_step
    \/ lstm_return
    \/ highway_call
    \/ where_call

Spec == Init /\ [][Next]_vars

\* --------------------------------------------------------- properties
Recurrent == {"simple_rnn", "lstm"}

\* Row b (1-based) of a rank-2 tensor, as a sequence.
Row(a, b) == SubSeq(a.data, (b - 1) * a.shape[2] + 1, b * a.shape[2])

\* mask[b][k] of the current call (1-based).
MaskAt(b, k) == mask.data[(b - 1) * length + k]

\* The hidden state the current call started from.
InitialHidden ==
    IF fn = "lstm" /\ initial_state.type # "None" THEN initial_state.elems[2] ELSE ZeroState(units)

WhereSelects ==
    fn = "where" =>
       LET condition == wargs[1]
           x         == wargs[2]
           y         == wargs[3]
           per       == Len(x.data) \div BatchSize
       IN /\ ret[1].shape = x.shape
          /\ \A k \in 1..Len(x.data) :
                LET b  == ((k - 1) \div per) + 1
                    cb == IF Len(condition.data) = 1 THEN condition.data[1] ELSE condition.data[b]
                IN ret[1].data[k] = IF cb = 1 THEN x.data[k] ELSE y.data[k]

\* C3: a call of lstm with a malformed initial_state ends in a validation error with
\* no step run, no parameter created or used and nothing returned, and nothing runs
\* after the error; a well-formed initial_state raises no validation error.
ValidationErrors ==
    {"initial_state must be a typle or a list.",
     "initial_state must have only two states.",
     "shapes of initial_state must be same.",
     "batch size of initial_state is different from that of inputs.",
     "units size of initial_state is different from that of units of args.",
     "IndexError"}

Malformed(st, u) ==
    /\ st.type # "None"
    /\ \/ st.type \notin {"tuple", "list"}
       \/ Len(st.elems) # 2
       \/ st.elems[1].shape # st.elems[2].shape
       \/ ndim(st.elems[1]) < 2
       \/ st.elems[1].shape[1] # BatchSize
       \/ st.elems[1].shape[2] # u

WellFormed(st, u) ==
    /\ st.type \in {"tuple", "list"}
    /\ Len(st.elems) = 2
    /\ st.elems[1].shape = <<BatchSize, u>>
    /\ st.elems[2].shape = <<BatchSize, u>>

InitialStateValidated ==
    [][/\ pc # "error"
       /\ (fn' = "lstm" /\ pc # "loop" /\ Malformed(initial_state', units')) =>
             /\ pc' = "error"
             /\ raised' \in ValidationErrors
             /\ t' = 0
             /\ hs' = <<>>
             /\ used' = {}
             /\ ret' = <<>>
             /\ params' = params
       /\ (fn' = "lstm" /\ WellFormed(initial_state', units')) =>
             raised' \notin ValidationErrors]_vars

\* A malformed initial_state was rejected while parameters of an earlier call exist.
MalformedRejected ==
    /\ fn = "lstm"
    /\ pc = "error"
    /\ Malformed(initial_state, units)
    /\ raised \in ValidationErrors
    /\ params[LstmScope] # NoParam

OutputShapes ==
    (fn \in Recurrent /\ pc = "done") =>
       /\ Len(ret) = IF fn = "lstm" /\ return_state THEN 3 ELSE 1
       /\ IF return_sequences
          THEN /\ ret[1].shape = <<BatchSize, length, units>>
               /\ \A b \in 1..BatchSize, k \in 1..length, j \in 1..units :
                     ret[1].data[((b - 1) * length + (k - 1)) * units + j]
                        = hs[k].data[(b - 1) * units + j]
          ELSE /\ ret[1].shape = <<BatchSize, units>>
               /\ ret[1] = hs[length]
       /\ Len(ret) = 3 =>
             /\ ret[2] = cell
             /\ ret[3] = hidden
             /\ ret[3] = hs[length]
             /\ ret[2].shape = <<BatchSize, units>>
             /\ ret[3].shape = <<BatchSize, units>>

\* lstm returned a sequence of two different hidden states and a state whose cell
\* and hidden differ.
SequenceAndStateReturned ==
    /\ fn = "lstm"
    /\ pc = "done"
    /\ return_sequences
    /\ return_state
    /\ length = 2
    /\ hs[1] # hs[2]
    /\ ret[2] # ret[3]

\* C6: every affine parameter a layer uses is trainable exactly when the call's
\* fix_parameters is unset, in simple_rnn, lstm and highway.
FixParametersHonoured ==
    fn \in {"simple_rnn", "lstm", "highway"} =>
       \A a \in used : a.need_grad = ~fix_parameters

\* C7: a call with a supplied mask of ones has at every step the state the same call
\* has with mask = None, and in both cases the state after a step is the candidate.
AllOnes == \A i \in 1..Len(mask.data) : mask.data[i] = 1

ValidUpTo(b, k) == \A j \in 1..length : MaskAt(b, j) = IF j <= k THEN 1 ELSE 0

GateIs(v) == \A k \in 1..Len(out_transform.data) : out_transform.data[k] = v

HighwayGate ==
    (fn = "highway" /\ pc = "done") =>
       LET x == wargs[1]
       IN /\ ret[1].shape = x.shape
          /\ \A k \in 1..Len(x.data) :
                ret[1].data[k] = out_plain.data[k] * out_transform.data[k]
                                    + x.data[k] * (1 - out_transform.data[k])
          /\ GateIs(0) => ret[1] = x
          /\ GateIs(1) => ret[1] = out_plain
          /\ out_plain = Relu(AffineOut(x, params[PlainScope]))
          /\ out_transform = Sigmoid(AffineOut(x, params[TransformScope]))
          /\ {a.scope : a \in used} = {PlainScope, TransformScope}
          /\ PlainScope # TransformScope

\* The gate was 0 everywhere while the plain branch, with parameters of its own,
\* differs from x.
GateClosed ==
    /\ fn = "highway"
    /\ pc = "done"
    /\ GateIs(0)
    /\ out_plain # wargs[1]
    /\ params[PlainScope] # params[TransformScope]

\* C10: an lstm call that continues from the state the previous call returned has,
\* at every step, the hidden and cell state and the history of one call over all the
\* timesteps; the returned hidden state is the last entry of the history.
ChainIsOneCall ==
    /\ (fn = "lstm" /\ chained /\ pc \in {"loop", "done"}) =>
          /\ cell = whole.cell
          /\ hidden = whole.hidden
          /\ hs = SubSeq(whole.hs, Len(whole.hs) - t + 1, Len(whole.hs))
    /\ (fn = "lstm" /\ pc = "done" /\ return_state) =>
          /\ ret[3] = hs[Len(hs)]
          /\ ret[2] = cell

\* A chained call ended after the second timestep overall, with cell and hidden
\* different and the state changed by its step.
ChainFinished ==
    /\ fn = "lstm"
    /\ chained
    /\ pc = "done"
    /\ Len(whole.hs) = 2
    /\ whole.hs[1] # whole.hs[2]
    /\ cell # hidden

=============================================================================
